---- MODULE Spec2Model ----
(***************************************************************************)
(* A model of the Apple Health XML -> CSV exporter                         *)
(* (src/app/apple_health_exporter.py, class AppleHealthExporter) and of    *)
(* its caller convert_xml_to_csv (src/app/main.py).                        *)
(*                                                                         *)
(* A document is the sequence of its elements in document order, which is  *)
(* the order root.iter() visits them (the root first, then every           *)
(* descendant).  Only an element's tag and attribute mapping are read by   *)
(* the program, so an element is [tag, attrib] and attrib is the sequence  *)
(* of <<key, value>> pairs in the order the attributes were written.       *)
(***************************************************************************)
EXTENDS Integers, Sequences, FiniteSets, TLC

VARIABLES
    xml_file,       \* what the input path holds: [exists, wellformed, elems]
    include_tags,   \* the include_tags argument / field: None or a list of tags
    dir_exists,     \* whether output_dir exists on disk
    files,          \* output_dir's content: a function tag -> artifact
    tag_count,      \* self.tag_count: insertion-ordered seq of [tag, attribs]
    tree,           \* the ElementTree held by parse_xml while it runs
    pc,             \* position of the caller / of convert()
    raised,         \* the exception that reached the caller of the last call
    parse_error,    \* parse_xml logged "Error parsing XML file" in this call
    summary,        \* the totals log_summary logged in this call: <<>> or <<n>>
    attempted,      \* tags whose to_csv was started in this call, in order
    calls,          \* convert() calls started on the current exporter instance
    runs,           \* convert() calls started in the whole behaviour
    prev_files,     \* files as they were when the current exporter was constructed
    prev_export     \* the exporter before this one ran convert() once, to its end

vars == <<xml_file, include_tags, dir_exists, files, tag_count, tree, pc, raised,
          parse_error, summary, attempted, calls, runs, prev_files, prev_export>>

----------------------------------------------------------------------------
(* Bounds of the model *)

MaxChildren == 3
MaxRuns == 2

(* Values the inputs are drawn from *)

None == [is_none |-> TRUE, tags |-> {}]
Absent == [exists |-> FALSE, wellformed |-> FALSE, elems |-> <<>>]
NoSummary == <<>>
NoFiles == <<>>

RootTag == "HealthData"
ChildTags == {"Record", "Workout"}
Tags == {RootTag} \cup ChildTags

AttribMaps ==
    { <<>>,
      << <<"type", "A">> >>,
      << <<"value", "1">>, <<"type", "B">> >> }

AttribKeys == UNION {{a[j][1] : j \in 1..Len(a)} : a \in AttribMaps}

AttribPositions == UNION {1..Len(a) : a \in AttribMaps}

Children == [tag : ChildTags, attrib : AttribMaps]
Roots == [tag : {RootTag}, attrib : {<<>>}]

RECURSIVE SeqsUpTo(_, _)
SeqsUpTo(S, n) ==
    IF n = 0 THEN {<<>>}
    ELSE LET shorter == SeqsUpTo(S, n - 1)
         IN  shorter \cup {Append(s, e) : s \in shorter, e \in S}

Documents == {<<r>> \o kids : r \in Roots, kids \in SeqsUpTo(Children, MaxChildren)}

InputFiles ==
    {Absent} \cup [exists : {TRUE}, wellformed : BOOLEAN, elems : Documents]

IncludeChoices == {None} \cup [is_none : {FALSE}, tags : SUBSET Tags]

----------------------------------------------------------------------------
(* element.attrib, a dict, and pandas.DataFrame(list of dicts).to_csv *)

Keys(attrib) == [i \in 1..Len(attrib) |-> attrib[i][1]]

HasKey(attrib, k) == \E i \in 1..Len(attrib) : attrib[i][1] = k

Get(attrib, k) == attrib[CHOOSE i \in 1..Len(attrib) : attrib[i][1] = k][2]

InSeq(s, x) == \E i \in 1..Len(s) : s[i] = x

RECURSIVE ExtendColumns(_, _)
ExtendColumns(cols, keys) ==
    IF keys = <<>> THEN cols
    ELSE ExtendColumns(IF InSeq(cols, Head(keys)) THEN cols
                       ELSE Append(cols, Head(keys)),
                       Tail(keys))

RECURSIVE ColumnsFrom(_, _)
ColumnsFrom(cols, attribs) ==
    IF attribs = <<>> THEN cols
    ELSE ColumnsFrom(ExtendColumns(cols, Keys(Head(attribs))), Tail(attribs))

ColumnsFirstRowOnly(attribs) ==
    IF attribs = <<>> THEN <<>> ELSE Keys(Head(attribs))

Columns(attribs) == ColumnsFrom(<<>>, attribs)

Cell(attrib, col) == IF HasKey(attrib, col) THEN Get(attrib, col) ELSE ""

DataFrame(attribs) ==
    LET cols == Columns(attribs)
    IN  [columns |-> cols,
         rows |-> [i \in 1..Len(attribs) |->
                      [j \in 1..Len(cols) |-> Cell(attribs[i], cols[j])]]]

ToCsvAppend(dir, tag, df) ==
    IF tag \in DOMAIN dir
    THEN [dir EXCEPT ![tag] = [header |-> @.header, rows |-> @.rows \o df.rows]]
    ELSE (tag :> [header |-> df.columns, rows |-> df.rows]) @@ dir

ToCsv(dir, tag, df) ==
    (tag :> [header |-> df.columns, rows |-> df.rows]) @@ dir

----------------------------------------------------------------------------
(* self.tag_count, a defaultdict(list) in insertion order *)

TagIndex(tc, tag) ==
    IF \E i \in 1..Len(tc) : tc[i].tag = tag
    THEN CHOOSE i \in 1..Len(tc) : tc[i].tag = tag
    ELSE 0

TagsOf(tc) == [i \in 1..Len(tc) |-> tc[i].tag]

RowsOf(tc, tag) ==
    IF TagIndex(tc, tag) = 0 THEN <<>> ELSE tc[TagIndex(tc, tag)].attribs

AppendRowReplacing(tc, el) ==
    IF TagIndex(tc, el.tag) = 0
    THEN Append(tc, [tag |-> el.tag, attribs |-> <<el.attrib>>])
    ELSE [tc EXCEPT ![TagIndex(tc, el.tag)].attribs = <<el.attrib>>]

AppendRow(tc, el) ==
    IF TagIndex(tc, el.tag) = 0
    THEN Append(tc, [tag |-> el.tag, attribs |-> <<el.attrib>>])
    ELSE [tc EXCEPT ![TagIndex(tc, el.tag)].attribs = Append(@, el.attrib)]

QualifiesAlways(el, inc) == TRUE

Qualifies(el, inc) == inc.is_none \/ el.tag \in inc.tags

RECURSIVE CountTags(_, _, _)
CountTags(tc, elems, inc) ==
    IF elems = <<>> THEN tc
    ELSE CountTags(IF Qualifies(Head(elems), inc) THEN AppendRow(tc, Head(elems))
                   ELSE tc,
                   Tail(elems), inc)

IterChildren(elems) == Tail(elems)

Iter(elems) == elems

CountLoopFromEmpty(tc, elems, inc) == CountTags(<<>>, Iter(elems), inc)

CountLoop(tc, elems, inc) == CountTags(tc, Iter(elems), inc)

IsFileAlways(f) == TRUE

IsFile(f) == f.exists

ParseLenient(f) == [ok |-> TRUE, elems |-> f.elems]

Parse(f) ==
    IF f.wellformed THEN [ok |-> TRUE, elems |-> f.elems]
    ELSE [ok |-> FALSE, elems |-> <<>>]

RECURSIVE SaveAll(_, _, _)
SaveAll(dir, tc, n) ==
    IF n = 0 THEN dir
    ELSE ToCsv(SaveAll(dir, tc, n - 1), tc[n].tag, DataFrame(tc[n].attribs))

RECURSIVE TotalRows(_, _)
TotalRows(tc, n) ==
    IF n = 0 THEN 0 ELSE TotalRows(tc, n - 1) + Len(tc[n].attribs)

----------------------------------------------------------------------------
(* The state before any exporter is constructed *)

Init ==
    /\ xml_file \in InputFiles
    /\ include_tags \in IncludeChoices
    /\ dir_exists \in BOOLEAN
    /\ files = NoFiles
    /\ tag_count = <<>>
    /\ tree = <<>>
    /\ pc = "idle"
    /\ raised = "none"
    /\ parse_error = FALSE
    /\ summary = NoSummary
    /\ attempted = <<>>
    /\ calls = 0
    /\ runs = 0
    /\ prev_files = NoFiles
    /\ prev_export = FALSE

(* AppleHealthExporter(xml_file, output_dir, include_tags) *)
Construct ==
    /\ pc \in {"idle", "done", "raised"}
    /\ runs < MaxRuns
    /\ IF IsFile(xml_file)
       THEN /\ pc' = "constructed"
            /\ raised' = "none"
       ELSE /\ pc' = "raised"
            /\ raised' = "FileNotFoundError"
    /\ tag_count' = <<>>
    /\ calls' = 0
    /\ prev_files' = files
    /\ prev_export' = (pc = "done" /\ calls = 1)
    /\ UNCHANGED <<xml_file, include_tags, dir_exists, files, tree, parse_error,
                   summary, attempted, runs>>

(* convert(): entry and create_output_directory() *)
create_output_directory ==
    /\ \/ pc = "constructed"
       \/ pc \in {"done", "raised"} /\ calls > 0
    /\ runs < MaxRuns
    /\ pc' = "prepared"
    /\ dir_exists' = TRUE
    /\ calls' = calls + 1
    /\ runs' = runs + 1
    /\ raised' = "none"
    /\ parse_error' = FALSE
    /\ summary' = NoSummary
    /\ attempted' = <<>>
    /\ UNCHANGED <<xml_file, include_tags, files, tag_count, tree, prev_files,
                   prev_export>>

(* parse_xml(): ET.parse and getroot, with both except branches *)
parse_tree ==
    /\ pc = "prepared"
    /\ IF IsFile(xml_file) /\ Parse(xml_file).ok
       THEN /\ tree' = Parse(xml_file).elems
            /\ pc' = "parsed"
            /\ UNCHANGED parse_error
       ELSE /\ parse_error' = TRUE
            /\ pc' = "counted"
            /\ UNCHANGED tree
    /\ UNCHANGED <<xml_file, include_tags, dir_exists, files, tag_count, raised,
                   summary, attempted, calls, runs, prev_files, prev_export>>

(* parse_xml(): the loop over root.iter() *)
count_tags ==
    /\ pc = "parsed"
    /\ tag_count' = CountLoop(tag_count, tree, include_tags)
    /\ tree' = <<>>
    /\ pc' = "counted"
    /\ UNCHANGED <<xml_file, include_tags, dir_exists, files, raised, parse_error,
                   summary, attempted, calls, runs, prev_files, prev_export>>

(* save_to_csv(): every tag written, then log_summary *)
save_to_csv ==
    /\ pc = "counted"
    /\ files' = SaveAll(files, tag_count, Len(tag_count))
    /\ attempted' = TagsOf(tag_count)
    /\ summary' = <<TotalRows(tag_count, Len(tag_count))>>
    /\ pc' = "done"
    /\ UNCHANGED <<xml_file, include_tags, dir_exists, tag_count, tree, raised,
                   parse_error, calls, runs, prev_files, prev_export>>

(* save_to_csv(): to_csv of the n-th tag raises (the file cannot be opened, *)
(* so it is left as it was); nothing catches the exception, which ends the *)
(* loop and leaves save_to_csv() and convert()                             *)
save_to_csv_fault ==
    /\ pc = "counted"
    /\ \E n \in 1..Len(tag_count) :
          /\ files' = SaveAll(files, tag_count, n - 1)
          /\ attempted' = SubSeq(TagsOf(tag_count), 1, n)
    /\ raised' = "IOError"
    /\ pc' = "raised"
    /\ UNCHANGED <<xml_file, include_tags, dir_exists, tag_count, tree,
                   parse_error, summary, calls, runs, prev_files, prev_export>>

Next ==
    \/ Construct
    \/ create_output_directory
    \/ parse_tree
    \/ count_tags
    \/ save_to_csv
    \/ save_to_csv_fault

Spec == Init /\ [][Next]_vars

----------------------------------------------------------------------------
(* What the document says, read off the input independently of the exporter *)

Elems == xml_file.elems

WellFormed == xml_file.exists /\ xml_file.wellformed

Passes(t) == include_tags.is_none \/ t \in include_tags.tags

ElementsWith(t) == {i \in 1..Len(Elems) : Elems[i].tag = t}

QualifyingCount(t) == IF Passes(t) THEN Cardinality(ElementsWith(t)) ELSE 0

QualifyingTotal == Cardinality({i \in 1..Len(Elems) : Passes(Elems[i].tag)})

Occurrences(t, k) ==
    {<<i, j>> \in (1..Len(Elems)) \X AttribPositions :
        /\ Elems[i].tag = t
        /\ j <= Len(Elems[i].attrib)
        /\ Elems[i].attrib[j][1] = k}

Before(p, q) == p[1] < q[1] \/ (p[1] = q[1] /\ p[2] < q[2])

FirstSeen(t, k) ==
    CHOOSE p \in Occurrences(t, k) : \A q \in Occurrences(t, k) : p = q \/ Before(p, q)

KeysOfTag(t) == {k \in AttribKeys : Occurrences(t, k) # {}}

IsFirstSeenUnion(h, t) ==
    /\ \A a, b \in 1..Len(h) : a # b => h[a] # h[b]
    /\ {h[a] : a \in 1..Len(h)} = KeysOfTag(t)
    /\ \A a, b \in 1..Len(h) : a < b => Before(FirstSeen(t, h[a]), FirstSeen(t, h[b]))

FirstExportDone == pc = "done" /\ calls = 1

----------------------------------------------------------------------------
(* C1: after an export (convert() on a newly constructed exporter) of a     *)
(* well-formed document, for every include_tags setting, the artifact of    *)
(* each tag holds exactly as many rows as the document has elements of that *)
(* tag passing the filter, and a tag with no such element has no artifact.  *)
C1_RowCountPerTag ==
    (FirstExportDone /\ WellFormed) =>
        \A t \in Tags :
            IF QualifyingCount(t) = 0
            THEN t \notin DOMAIN files
            ELSE t \in DOMAIN files /\ Len(files[t].rows) = QualifyingCount(t)

C1_Witness ==
    /\ FirstExportDone /\ WellFormed
    /\ ~include_tags.is_none /\ include_tags.tags = {"Record"}
    /\ ElementsWith("Workout") # {}
    /\ DOMAIN files = {"Record"}
    /\ Len(files["Record"].rows) = 2

(* C2: the header of every artifact is the sequence of distinct attribute   *)
(* keys of the elements of its tag, in the order each key is first met in   *)
(* document order, none repeated and none missing.                          *)
C2_HeaderIsFirstSeenUnion ==
    WellFormed => \A t \in DOMAIN files : IsFirstSeenUnion(files[t].header, t)

C2_Witness ==
    /\ pc = "done" /\ WellFormed
    /\ "Record" \in DOMAIN files
    /\ files["Record"].header = <<"type", "value">>
    /\ files["Record"].rows = << <<"A", "">>, <<"B", "1">> >>

(* C3 as stated: with include_tags=None the root element contributes no row *)
(* and no artifact, so total_rows is the number of elements below the root  *)
(* (0 for an empty root, 3 for a root with three children) and no artifact  *)
(* carries the root's tag.                                                  *)
C3_RootContributesNothing ==
    (FirstExportDone /\ WellFormed /\ include_tags.is_none) =>
        /\ summary = <<Len(Elems) - 1>>
        /\ Elems[1].tag \notin DOMAIN files

(* C3 amended: with include_tags=None the root element is counted like any  *)
(* other element: total_rows is the number of elements of the document, the *)
(* root included (1 for an empty root, 4 for a root with three children),   *)
(* and the root's tag has an artifact with one row per element of that tag. *)
C3_RootIsCounted ==
    (FirstExportDone /\ WellFormed /\ include_tags.is_none) =>
        /\ summary = <<Len(Elems)>>
        /\ Elems[1].tag \in DOMAIN files
        /\ Len(files[Elems[1].tag].rows) = Cardinality(ElementsWith(Elems[1].tag))
        /\ DOMAIN files = {Elems[i].tag : i \in 1..Len(Elems)}
        /\ (Len(Elems) = 1 => files[Elems[1].tag] = [header |-> <<>>, rows |-> << <<>> >>])

C3_Witness ==
    /\ FirstExportDone /\ WellFormed /\ include_tags.is_none
    /\ Len(Elems) = 4
    /\ summary = <<4>>
    /\ DOMAIN files = {"HealthData", "Record", "Workout"}

(* C4: when the input is malformed the parse error reaches the caller of    *)
(* convert(): the run never gets to the writing phase, never ends normally  *)
(* and never logs a summary.                                                *)
C4_ParseErrorReachesCaller ==
    (parse_error /\ pc \in {"done", "raised"}) =>
        /\ pc = "raised" /\ raised = "ParseError"
        /\ attempted = <<>>
        /\ summary = NoSummary

(* C5: a run whose parse fails creates no artifact: with malformed input    *)
(* the output directory, empty or absent at first, never holds a file.      *)
C5_NoArtifactOnParseFailure ==
    (xml_file.exists /\ ~xml_file.wellformed) => files = NoFiles

C5_Witness ==
    /\ xml_file.exists /\ ~xml_file.wellformed
    /\ Len(Elems) = 3
    /\ include_tags.is_none
    /\ pc = "done" /\ parse_error /\ dir_exists
    /\ files = NoFiles

(* C6: a write fault on one tag's artifact is isolated to that tag: every   *)
(* tag of the aggregation is still attempted and the run still ends with a  *)
(* summary.                                                                 *)
C6_WriteFaultIsolated ==
    raised = "IOError" =>
        /\ attempted = TagsOf(tag_count)
        /\ summary # NoSummary

(* C7: with a missing input path the export fails at construction, before   *)
(* any processing, and has no side effect: no step creates the output       *)
(* directory, parses anything or writes an artifact.                        *)
C7_MissingInputNoSideEffect ==
    [][~xml_file.exists =>
          /\ pc' = "raised" /\ raised' = "FileNotFoundError"
          /\ UNCHANGED <<dir_exists, files, tree, tag_count>>]_vars

C7_Witness ==
    /\ ~xml_file.exists
    /\ pc = "raised" /\ raised = "FileNotFoundError"
    /\ ~dir_exists /\ files = NoFiles

(* C8: export is idempotent: an export that follows a completed export of   *)
(* the same input with the same include_tags into the same directory leaves *)
(* the directory with the same artifacts and the same content in each.      *)
C8_Idempotent ==
    (FirstExportDone /\ prev_export) => files = prev_files

C8_Witness ==
    /\ FirstExportDone /\ prev_export /\ WellFormed
    /\ "Record" \in DOMAIN files
    /\ Len(files["Record"].rows) = 2
    /\ files = prev_files

(* C9: the parser is streaming: at every point of a run at most one element *)
(* (the current one) has been read and not yet aggregated.                  *)
C9_StreamingBound == Len(tree) <= 1

(* C10: tag_count is only appended to and never reset by convert(): after k *)
(* convert() calls on one exporter over a well-formed input each tag's row  *)
(* list holds k times the qualifying elements of that tag, and so do the    *)
(* artifacts and the total of the k-th call.                                *)
C10_RowsAccumulate ==
    (WellFormed /\ calls >= 1 /\ pc \in {"counted", "done", "raised"}) =>
        /\ \A t \in Tags : Len(RowsOf(tag_count, t)) = calls * QualifyingCount(t)
        /\ pc = "done" =>
              /\ summary = <<calls * QualifyingTotal>>
              /\ \A t \in DOMAIN files :
                    Len(files[t].rows) = calls * QualifyingCount(t)

C10_Witness ==
    /\ WellFormed /\ calls = 2 /\ pc = "done"
    /\ include_tags.is_none
    /\ Len(Elems) = 3
    /\ summary = <<6>>
    /\ Len(files["HealthData"].rows) = 2

====
